---------------------------- MODULE Spec2Model ----------------------------
(***************************************************************************)
(* A model of fastmap.h: an open-addressing hash map with Robin Hood       *)
(* probing over a sparse bucket index and a dense store made of three      *)
(* parallel vectors (keys, values, cached hashes).                          *)
(*                                                                         *)
(* A 64-bit word is a sequence of 8 bytes, least significant first, so     *)
(* that the arithmetic of fm_wymix and fm_hash stays within the integers   *)
(* the model checker can hold. A key is the integer whose little-endian    *)
(* bytes are the key_size bytes handed to fm_put/fm_get/fm_erase: an int   *)
(* for FM_INIT(int, ..), the address held by the pointer for               *)
(* FM_INIT(char*, ..).                                                    *)
(***************************************************************************)
EXTENDS Integers, Sequences, FiniteSets, TLC

(***************************************************************************)
(* SECTION 1: hashing                                                      *)
(***************************************************************************)

RECURSIVE BitXor(_, _)
BitXor(a, b) ==
    IF a = 0 THEN b
    ELSE IF b = 0 THEN a
    ELSE (((a % 2) + (b % 2)) % 2) + 2 * BitXor(a \div 2, b \div 2)

RECURSIVE BitAnd(_, _)
BitAnd(a, b) ==
    IF a = 0 \/ b = 0 THEN 0
    ELSE (a % 2) * (b % 2) + 2 * BitAnd(a \div 2, b \div 2)

\* The little-endian bytes of a non-negative integer, n of them.
RECURSIVE ToBytes(_, _)
ToBytes(x, n) ==
    IF n = 0 THEN << >> ELSE << x % 256 >> \o ToBytes(x \div 256, n - 1)

U64Xor(A, B) == [i \in 1..8 |-> BitXor(A[i], B[i])]

\* Column c (0..14) of the schoolbook product of two 8-byte words.
RECURSIVE ColSum(_, _, _, _)
ColSum(A, B, c, i) ==
    IF i > 7 THEN 0
    ELSE (IF c - i >= 0 /\ c - i <= 7 THEN A[i + 1] * B[c - i + 1] ELSE 0)
         + ColSum(A, B, c, i + 1)

\* The 16 bytes of the full 128-bit product, from column c on.
RECURSIVE MulCols(_, _, _, _)
MulCols(A, B, c, carry) ==
    IF c = 16 THEN << >>
    ELSE LET s == carry + ColSum(A, B, c, 0)
         IN  << s % 256 >> \o MulCols(A, B, c + 1, s \div 256)

\* (uint64_t)res ^ (uint64_t)(res >> 64), res the 128-bit product.
fm_wymix(A, B) ==
    LET res == MulCols(A, B, 0, 0)
    IN  U64Xor(SubSeq(res, 1, 8), SubSeq(res, 9, 16))

HashSeed == << 21, 124, 74, 127, 185, 121, 55, 158 >>   \* 0x9E3779B97F4A7C15
HashMulA == << 185, 229, 228, 28, 109, 71, 88, 191 >>   \* 0xbf58476d1ce4e5b9
HashMulB == << 235, 17, 49, 19, 187, 73, 208, 148 >>    \* 0x94d049bb133111eb

\* The while (len >= 8) loop, then the tail of 0..7 bytes and the final mix;
\* key is what p points at, see1 the original len.
RECURSIVE fm_hash_loop(_, _, _, _)
fm_hash_loop(key, len, see1, seed) ==
    IF Len(key) >= 8
    THEN fm_hash_loop(SubSeq(key, 9, Len(key)), len, see1,
                      fm_wymix(U64Xor(seed, SubSeq(key, 1, 8)), HashMulA))
    ELSE LET seed2 == IF Len(key) > 0
                      THEN fm_wymix(
                             U64Xor(seed, key \o [i \in 1..(8 - Len(key)) |-> 0]),
                             HashMulB)
                      ELSE seed
         IN  fm_wymix(seed2, ToBytes(see1, 8))

\* key: the len bytes of the key.
fm_hash(key, len) == fm_hash_loop(SubSeq(key, 1, len), len, len, HashSeed)


(***************************************************************************)
(* SECTION 2: the type-erased dynamic array                                *)
(*                                                                         *)
(* data holds the elements at [0, length); the bytes at and beyond length  *)
(* are never read by the map and are left out. An element stands for its   *)
(* stride bytes.                                                           *)
(***************************************************************************)

fm_vec_init(stride_, cap) ==
    [data |-> << >>, length |-> 0, capacity |-> cap, stride |-> stride_]

\* Faulty variant of fm_vec_grow: the capacity grows by the stride, a byte
\* count taken for an element count.
fm_vec_grow_bystride(vec, can_alloc) ==
    LET new_cap == IF vec.capacity = 0 THEN 8 ELSE vec.capacity + vec.stride
    IN  IF ~can_alloc
        THEN [vec |-> vec, status |-> "abort"]
        ELSE [vec |-> [vec EXCEPT !.capacity = new_cap], status |-> "ok"]

\* realloc succeeds iff can_alloc; abort() otherwise.
fm_vec_grow(vec, can_alloc) ==
    LET new_cap == IF vec.capacity = 0 THEN 8 ELSE vec.capacity * 2
    IN  IF ~can_alloc
        THEN [vec |-> vec, status |-> "abort"]
        ELSE [vec |-> [vec EXCEPT !.capacity = new_cap], status |-> "ok"]

fm_vec_push(vec, item, can_alloc) ==
    LET g == IF vec.length >= vec.capacity
             THEN fm_vec_grow(vec, can_alloc)
             ELSE [vec |-> vec, status |-> "ok"]
    IN  IF g.status # "ok"
        THEN g
        ELSE [vec |-> [g.vec EXCEPT
                         !.data = Append(vec.data, item),
                         !.length = vec.length + 1],
              status |-> "ok"]

\* index is 0-based, as in C.
fm_vec_at(vec, index) == vec.data[index + 1]

\* The element at index overwritten (the memcpy through fm_vec_at's pointer).
VecStore(vec, index, item) == [vec EXCEPT !.data[index + 1] = item]

\* length-- : the last element leaves the live range.
VecPop(vec) ==
    [vec EXCEPT !.data = SubSeq(vec.data, 1, vec.length - 1),
                !.length = vec.length - 1]

(***************************************************************************)
(* SECTION 3: the dense map structure                                      *)
(***************************************************************************)

\* 0xFFFFFFFF as a uint32_t; "Set to -1" in the source.
FM_EMPTY_IDX == -1

\* The null pointer fm_get returns on a miss.
NULL == -1

\* max_load_factor = 0.80f is the float 13421773 / 2^24; bucket_count (a power
\* of two) times it is exact in float, and so is a length below 2^24.
LoadNum == 13421773
LoadDen == 16777216

InitBuckets == 16
InitCap == 8

\* malloc and memset(.., 0xFF, ..): n slots, 0..n-1, all EMPTY.
RECURSIVE EmptyBuckets(_)
EmptyBuckets(n) ==
    IF n = 1 THEN 0 :> FM_EMPTY_IDX
    ELSE EmptyBuckets(n - 1) @@ ((n - 1) :> FM_EMPTY_IDX)

fm_init(key_size_, val_size_) ==
    [key_size     |-> key_size_,
     val_size     |-> val_size_,
     bucket_count |-> InitBuckets,
     bucket_mask  |-> InitBuckets - 1,
     buckets      |-> EmptyBuckets(InitBuckets),
     keys         |-> fm_vec_init(key_size_, InitCap),
     values       |-> fm_vec_init(val_size_, InitCap),
     hashes       |-> fm_vec_init(8, InitCap)]

(***************************************************************************)
(* SECTION 4: Robin Hood placement and resize                              *)
(***************************************************************************)

\* hash & mask: the low bits of the 64-bit word (mask is below 2^24 here).
HashAnd(hash, mask) == BitAnd(hash[1] + 256 * hash[2] + 65536 * hash[3], mask)

\* (bucket_idx + mask + 1 - ideal_idx) & mask
ProbeDist(bucket_idx, ideal_idx, mask) ==
    BitAnd(bucket_idx + mask + 1 - ideal_idx, mask)

\* Faulty variant of place_loop: plain linear probing, the newcomer never
\* taking the slot of a richer incumbent.
RECURSIVE place_loop_noswap(_, _, _, _, _, _, _)
place_loop_noswap(buckets, mask, hashes_vec, bucket_idx, dist, vec_idx, n) ==
    IF buckets[bucket_idx] = FM_EMPTY_IDX
    THEN [buckets |-> [buckets EXCEPT ![bucket_idx] = vec_idx], status |-> "ok"]
    ELSE IF n > mask
    THEN [buckets |-> buckets, status |-> "hang"]
    ELSE place_loop_noswap(buckets, mask, hashes_vec, BitAnd(bucket_idx + 1, mask),
                           dist + 1, vec_idx, n + 1)

\* Faulty variant of place_loop: on a Robin Hood swap the newcomer takes the
\* slot and the loop stops, the evicted index never placed again.
RECURSIVE place_loop_drop(_, _, _, _, _, _, _)
place_loop_drop(buckets, mask, hashes_vec, bucket_idx, dist, vec_idx, n) ==
    LET existing_idx == buckets[bucket_idx]
    IN  IF existing_idx = FM_EMPTY_IDX
        THEN [buckets |-> [buckets EXCEPT ![bucket_idx] = vec_idx], status |-> "ok"]
        ELSE LET existing_hash == fm_vec_at(hashes_vec, existing_idx)
                 ideal_idx     == HashAnd(existing_hash, mask)
                 existing_dist == ProbeDist(bucket_idx, ideal_idx, mask)
                 nxt           == BitAnd(bucket_idx + 1, mask)
             IN  IF existing_dist < dist
                 THEN [buckets |-> [buckets EXCEPT ![bucket_idx] = vec_idx],
                       status |-> "ok"]
                 ELSE place_loop_drop(buckets, mask, hashes_vec, nxt, dist + 1,
                                      vec_idx, n + 1)

\* The while (true) loop of fm_place_index. n counts the iterations: the loop
\* only returns at an EMPTY slot and never empties one, so once it has looked
\* at every slot without finding one it runs forever ("hang").
RECURSIVE place_loop(_, _, _, _, _, _, _)
place_loop(buckets, mask, hashes_vec, bucket_idx, dist, vec_idx, n) ==
    LET existing_idx == buckets[bucket_idx]
    IN  IF existing_idx = FM_EMPTY_IDX
        THEN [buckets |-> [buckets EXCEPT ![bucket_idx] = vec_idx], status |-> "ok"]
        ELSE IF n > mask
        THEN [buckets |-> buckets, status |-> "hang"]
        ELSE LET existing_hash == fm_vec_at(hashes_vec, existing_idx)
                 ideal_idx     == HashAnd(existing_hash, mask)
                 existing_dist == ProbeDist(bucket_idx, ideal_idx, mask)
             IN  IF existing_dist < dist
                 THEN place_loop([buckets EXCEPT ![bucket_idx] = vec_idx], mask,
                                 hashes_vec, BitAnd(bucket_idx + 1, mask),
                                 existing_dist + 1, existing_idx, n + 1)
                 ELSE place_loop(buckets, mask, hashes_vec,
                                 BitAnd(bucket_idx + 1, mask), dist + 1, vec_idx, n + 1)

fm_place_index(buckets, mask, hash, vec_idx, hashes_vec) ==
    place_loop(buckets, mask, hashes_vec, HashAnd(hash, mask), 0, vec_idx, 0)

\* Faulty variant of resize_loop: the loop starts one position late, dense
\* position 0 never placed in the new array.
RECURSIVE resize_loop_skip(_, _, _, _)
resize_loop_skip(map, new_buckets, new_mask, i) ==
    IF i + 1 >= map.keys.length
    THEN [buckets |-> new_buckets, status |-> "ok"]
    ELSE LET h == fm_vec_at(map.hashes, i + 1)
             r == fm_place_index(new_buckets, new_mask, h, i + 1, map.hashes)
         IN  IF r.status # "ok" THEN r
             ELSE resize_loop_skip(map, r.buckets, new_mask, i + 1)

\* The for loop of fm_resize, from dense position i on.
RECURSIVE resize_loop(_, _, _, _)
resize_loop(map, new_buckets, new_mask, i) ==
    IF i >= map.keys.length
    THEN [buckets |-> new_buckets, status |-> "ok"]
    ELSE LET h == fm_vec_at(map.hashes, i)
             r == fm_place_index(new_buckets, new_mask, h, i, map.hashes)
         IN  IF r.status # "ok" THEN r
             ELSE resize_loop(map, r.buckets, new_mask, i + 1)

\* Faulty variant of fm_resize: bucket_mask is not set to the new mask.
fm_resize_nomask(map, new_capacity, can_alloc) ==
    IF ~can_alloc
    THEN [map |-> map, status |-> "abort"]
    ELSE LET r == resize_loop(map, EmptyBuckets(new_capacity), new_capacity - 1, 0)
         IN  IF r.status # "ok"
             THEN [map |-> map, status |-> r.status]
             ELSE [map |-> [map EXCEPT !.buckets = r.buckets,
                                       !.bucket_count = new_capacity],
                   status |-> "ok"]

\* malloc is not checked: when it fails (can_alloc false) memset writes through
\* the null pointer and the process dies there, the map not yet touched.
fm_resize(map, new_capacity, can_alloc) ==
    IF ~can_alloc
    THEN [map |-> map, status |-> "abort"]
    ELSE LET new_mask == new_capacity - 1
             r == resize_loop(map, EmptyBuckets(new_capacity), new_mask, 0)
         IN  IF r.status # "ok"
             THEN [map |-> map, status |-> r.status]
             ELSE [map |-> [map EXCEPT !.buckets = r.buckets,
                                       !.bucket_count = new_capacity,
                                       !.bucket_mask = new_mask],
                   status |-> "ok"]


(***************************************************************************)
(* The keys and values the operations are called with.                     *)
(***************************************************************************)

\* Values written by put and through a reference: 1..MaxVal.
MaxVal == 1
Values == 1..MaxVal

\* test_massive_resize's loop, FM_PUT(&map, int, i, int, i) for i = 0, 1, ..:
\* the map starts empty or after up to MaxFill rounds of it.
MaxFill == 13
FillSizes == 0..MaxFill

\* The int keys later calls use: one of the loop's keys and two fresh ones
\* that collide with the loop's keys. 54 has the ideal slot of 11 and 12
\* (8 of 16, and of 11 again at 24 of 32) and comes to rest two slots on;
\* 19 has the ideal slot of 5 (0 of 16, 16 of 32), next to that of 0, and
\* takes the slot of 0 from it.
FreshPool == << 54, 19 >>
IntKeys == {0} \cup {FreshPool[i] : i \in DOMAIN FreshPool}
FillKeys == 0..(MaxFill - 1)

\* test_string_keys: the key is the pointer. Memory holds text at three
\* addresses: the literals "apple" and "banana", and the stack buffer that
\* strcpy/strcat fill with "apple".
Memory == (4096 :> "apple") @@ (4112 :> "banana") @@ (8192 :> "apple")
PtrKeys == DOMAIN Memory

IntSize == 4
PtrSize == 8

KeysOfSize(size) == IF size = PtrSize THEN PtrKeys ELSE IntKeys \cup FillKeys

\* The key_size bytes of every key in use, computed once.
KeyBytes ==
    [size \in {IntSize, PtrSize} |-> [k \in KeysOfSize(size) |-> ToBytes(k, size)]]

\* fm_hash(key, key_size) for every key in use, computed once.
HashTable ==
    [size \in {IntSize, PtrSize} |->
        [k \in KeysOfSize(size) |-> fm_hash(KeyBytes[size][k], size)]]

\* Faulty variant of KeyEq: memcmp's result read as a truth value, the
\* comparison with 0 missing, so that the keys "match" when they differ.
KeyEq_truthy(existing_key, key, key_size) ==
    KeyBytes[key_size][existing_key] # KeyBytes[key_size][key]

\* memcmp(existing_key, key, key_size) == 0
KeyEq(existing_key, key, key_size) ==
    KeyBytes[key_size][existing_key] = KeyBytes[key_size][key]

(***************************************************************************)
(* SECTION 5: put / get / erase                                            *)
(***************************************************************************)

\* Faulty variant of put_probe: the early exit taken on <= instead of <, so
\* that a key sitting at its own probe distance is never compared.
RECURSIVE put_probe_le(_, _, _, _)
put_probe_le(map, key, bucket_idx, dist) ==
    LET idx == map.buckets[bucket_idx]
    IN  IF idx = FM_EMPTY_IDX THEN FM_EMPTY_IDX
        ELSE LET existing_hash == fm_vec_at(map.hashes, idx)
                 ideal_idx     == HashAnd(existing_hash, map.bucket_mask)
                 existing_dist == ProbeDist(bucket_idx, ideal_idx, map.bucket_mask)
             IN  IF existing_dist <= dist THEN FM_EMPTY_IDX
                 ELSE IF KeyEq(fm_vec_at(map.keys, idx), key, map.key_size) THEN idx
                 ELSE put_probe_le(map, key, BitAnd(bucket_idx + 1, map.bucket_mask),
                                   dist + 1)

\* Faulty variant of put_probe: only the ideal slot is examined; a key not
\* found there is taken as absent.
put_probe_home(map, key, bucket_idx, dist) ==
    LET idx == map.buckets[bucket_idx]
    IN  IF idx = FM_EMPTY_IDX THEN FM_EMPTY_IDX
        ELSE IF KeyEq(fm_vec_at(map.keys, idx), key, map.key_size) THEN idx
        ELSE FM_EMPTY_IDX

\* The probe loop of fm_put: the dense index of the matching key, or
\* FM_EMPTY_IDX when the loop breaks (insert new).
RECURSIVE put_probe(_, _, _, _)
put_probe(map, key, bucket_idx, dist) ==
    LET idx == map.buckets[bucket_idx]
    IN  IF idx = FM_EMPTY_IDX THEN FM_EMPTY_IDX
        ELSE LET existing_hash == fm_vec_at(map.hashes, idx)
                 ideal_idx     == HashAnd(existing_hash, map.bucket_mask)
                 existing_dist == ProbeDist(bucket_idx, ideal_idx, map.bucket_mask)
             IN  IF existing_dist < dist THEN FM_EMPTY_IDX
                 ELSE IF KeyEq(fm_vec_at(map.keys, idx), key, map.key_size) THEN idx
                 ELSE put_probe(map, key, BitAnd(bucket_idx + 1, map.bucket_mask),
                                dist + 1)

\* Faulty variant of PutInsert: the hash is cached through a 32-bit
\* variable, its upper four bytes lost.
PutInsert_lowhash(map, key, value, hash, oom) ==
    LET new_idx == map.keys.length
        low == SubSeq(hash, 1, 4) \o << 0, 0, 0, 0 >>
        k == fm_vec_push(map.keys, key, oom # "keys")
        v == fm_vec_push(map.values, value, oom # "values")
        h == fm_vec_push(map.hashes, low, oom # "hashes")
        m3 == [map EXCEPT !.keys = k.vec, !.values = v.vec, !.hashes = h.vec]
        p == fm_place_index(m3.buckets, m3.bucket_mask, hash, new_idx, m3.hashes)
    IN  IF k.status # "ok" THEN [map |-> map, status |-> k.status]
        ELSE IF v.status # "ok"
        THEN [map |-> [map EXCEPT !.keys = k.vec], status |-> v.status]
        ELSE IF h.status # "ok"
        THEN [map |-> [map EXCEPT !.keys = k.vec, !.values = v.vec],
              status |-> h.status]
        ELSE [map |-> [m3 EXCEPT !.buckets = p.buckets], status |-> p.status]

\* Faulty variant of PutInsert: the entry is appended to the three vectors
\* but fm_place_index is never called for it.
PutInsert_noplace(map, key, value, hash, oom) ==
    LET k == fm_vec_push(map.keys, key, oom # "keys")
        v == fm_vec_push(map.values, value, oom # "values")
        h == fm_vec_push(map.hashes, hash, oom # "hashes")
    IN  IF k.status # "ok" THEN [map |-> map, status |-> k.status]
        ELSE IF v.status # "ok"
        THEN [map |-> [map EXCEPT !.keys = k.vec], status |-> v.status]
        ELSE IF h.status # "ok"
        THEN [map |-> [map EXCEPT !.keys = k.vec, !.values = v.vec],
              status |-> h.status]
        ELSE [map |-> [map EXCEPT !.keys = k.vec, !.values = v.vec,
                                  !.hashes = h.vec],
              status |-> "ok"]

\* Steps 3 and 4 of fm_put. oom names the allocation that fails, if attempted.
PutInsert(map, key, value, hash, oom) ==
    LET new_idx == map.keys.length
        k == fm_vec_push(map.keys, key, oom # "keys")
        v == fm_vec_push(map.values, value, oom # "values")
        h == fm_vec_push(map.hashes, hash, oom # "hashes")
        m3 == [map EXCEPT !.keys = k.vec, !.values = v.vec, !.hashes = h.vec]
        p == fm_place_index(m3.buckets, m3.bucket_mask, hash, new_idx, m3.hashes)
    IN  IF k.status # "ok" THEN [map |-> map, status |-> k.status]
        ELSE IF v.status # "ok"
        THEN [map |-> [map EXCEPT !.keys = k.vec], status |-> v.status]
        ELSE IF h.status # "ok"
        THEN [map |-> [map EXCEPT !.keys = k.vec, !.values = v.vec],
              status |-> h.status]
        ELSE [map |-> [m3 EXCEPT !.buckets = p.buckets], status |-> p.status]

\* Faulty variant of NeedResize: the load factor left out of the comparison.
NeedResize_full(map) == map.keys.length >= map.bucket_count

\* keys.length >= bucket_count * max_load_factor, in exact arithmetic.
NeedResize(map) == map.keys.length * LoadDen >= map.bucket_count * LoadNum

fm_put(map, key, value, oom) ==
    LET r == IF NeedResize(map)
             THEN fm_resize(map, map.bucket_count * 2, oom # "buckets")
             ELSE [map |-> map, status |-> "ok"]
        m1 == r.map
        hash == HashTable[m1.key_size][key]
        idx == put_probe(m1, key, HashAnd(hash, m1.bucket_mask), 0)
    IN  IF r.status # "ok" THEN r
        ELSE IF idx # FM_EMPTY_IDX
        THEN [map |-> [m1 EXCEPT !.values = VecStore(m1.values, idx, value)],
              status |-> "ok"]
        ELSE PutInsert(m1, key, value, hash, oom)

\* Faulty variant of get_probe: the early exit taken on <= instead of <.
RECURSIVE get_probe_le(_, _, _, _)
get_probe_le(map, key, bucket_idx, dist) ==
    LET idx == map.buckets[bucket_idx]
    IN  IF idx = FM_EMPTY_IDX THEN NULL
        ELSE IF KeyEq(fm_vec_at(map.keys, idx), key, map.key_size) THEN idx
        ELSE LET existing_hash == fm_vec_at(map.hashes, idx)
                 ideal_idx     == HashAnd(existing_hash, map.bucket_mask)
                 existing_dist == ProbeDist(bucket_idx, ideal_idx, map.bucket_mask)
             IN  IF existing_dist <= dist THEN NULL
                 ELSE get_probe_le(map, key, BitAnd(bucket_idx + 1, map.bucket_mask),
                                   dist + 1)

\* Faulty variant of get_probe: the first occupied slot is taken for a match,
\* its key not compared.
get_probe_nocompare(map, key, bucket_idx, dist) ==
    LET idx == map.buckets[bucket_idx]
    IN  IF idx = FM_EMPTY_IDX THEN NULL ELSE idx

\* The loop of fm_get: the dense index whose value the returned pointer
\* addresses, or NULL.
RECURSIVE get_probe(_, _, _, _)
get_probe(map, key, bucket_idx, dist) ==
    LET idx == map.buckets[bucket_idx]
    IN  IF idx = FM_EMPTY_IDX THEN NULL
        ELSE IF KeyEq(fm_vec_at(map.keys, idx), key, map.key_size) THEN idx
        ELSE LET existing_hash == fm_vec_at(map.hashes, idx)
                 ideal_idx     == HashAnd(existing_hash, map.bucket_mask)
                 existing_dist == ProbeDist(bucket_idx, ideal_idx, map.bucket_mask)
             IN  IF existing_dist < dist THEN NULL
                 ELSE get_probe(map, key, BitAnd(bucket_idx + 1, map.bucket_mask),
                                dist + 1)

fm_get(map, key) ==
    LET hash == HashTable[map.key_size][key]
    IN  get_probe(map, key, HashAnd(hash, map.bucket_mask), 0)

\* The loop of fm_update_bucket_for_moved_item; n counts the iterations, and
\* a full round without the slot means there is none: the loop never ends.
RECURSIVE update_loop(_, _, _, _, _)
update_loop(map, old_vec_idx, new_vec_idx, bucket_idx, n) ==
    IF map.buckets[bucket_idx] = old_vec_idx
    THEN [map |-> [map EXCEPT !.buckets[bucket_idx] = new_vec_idx], status |-> "ok"]
    ELSE IF n >= map.bucket_mask
    THEN [map |-> map, status |-> "hang"]
    ELSE update_loop(map, old_vec_idx, new_vec_idx,
                     BitAnd(bucket_idx + 1, map.bucket_mask), n + 1)

fm_update_bucket_for_moved_item(map, old_vec_idx, new_vec_idx) ==
    LET hash == fm_vec_at(map.hashes, new_vec_idx)
    IN  update_loop(map, old_vec_idx, new_vec_idx,
                    HashAnd(hash, map.bucket_mask), 0)

\* Faulty variant of SwapAndPop: the last key and value are moved into the
\* hole but the memcpy of the cached hash is missing.
SwapAndPop_nohash(map, vec_idx) ==
    LET last_vec_idx == map.keys.length - 1
        moved == [map EXCEPT
                    !.keys   = VecStore(map.keys, vec_idx,
                                        fm_vec_at(map.keys, last_vec_idx)),
                    !.values = VecStore(map.values, vec_idx,
                                        fm_vec_at(map.values, last_vec_idx))]
        u == IF vec_idx # last_vec_idx
             THEN fm_update_bucket_for_moved_item(moved, last_vec_idx, vec_idx)
             ELSE [map |-> map, status |-> "ok"]
    IN  [map |-> [u.map EXCEPT !.keys   = VecPop(u.map.keys),
                               !.values = VecPop(u.map.values),
                               !.hashes = VecPop(u.map.hashes)],
         status |-> u.status]

\* Faulty variant of SwapAndPop: the last key and hash are moved into the
\* hole but the memcpy of the value is missing.
SwapAndPop_novalue(map, vec_idx) ==
    LET last_vec_idx == map.keys.length - 1
        moved == [map EXCEPT
                    !.keys   = VecStore(map.keys, vec_idx,
                                        fm_vec_at(map.keys, last_vec_idx)),
                    !.hashes = VecStore(map.hashes, vec_idx,
                                        fm_vec_at(map.hashes, last_vec_idx))]
        u == IF vec_idx # last_vec_idx
             THEN fm_update_bucket_for_moved_item(moved, last_vec_idx, vec_idx)
             ELSE [map |-> map, status |-> "ok"]
    IN  [map |-> [u.map EXCEPT !.keys   = VecPop(u.map.keys),
                               !.values = VecPop(u.map.values),
                               !.hashes = VecPop(u.map.hashes)],
         status |-> u.status]

\* Part A of the delete logic: swap-and-pop from the three vectors.
SwapAndPop(map, vec_idx) ==
    LET last_vec_idx == map.keys.length - 1
        moved == [map EXCEPT
                    !.keys   = VecStore(map.keys, vec_idx,
                                        fm_vec_at(map.keys, last_vec_idx)),
                    !.values = VecStore(map.values, vec_idx,
                                        fm_vec_at(map.values, last_vec_idx)),
                    !.hashes = VecStore(map.hashes, vec_idx,
                                        fm_vec_at(map.hashes, last_vec_idx))]
        u == IF vec_idx # last_vec_idx
             THEN fm_update_bucket_for_moved_item(moved, last_vec_idx, vec_idx)
             ELSE [map |-> map, status |-> "ok"]
    IN  [map |-> [u.map EXCEPT !.keys   = VecPop(u.map.keys),
                               !.values = VecPop(u.map.values),
                               !.hashes = VecPop(u.map.hashes)],
         status |-> u.status]

\* Faulty variant of backshift_loop: an entry is copied into the hole but
\* the hole does not move forward (hole_idx = next_idx is missing).
RECURSIVE backshift_loop_nohole(_, _, _, _)
backshift_loop_nohole(map, hole_idx, next_idx, n) ==
    LET next_val == map.buckets[next_idx]
    IN  IF next_val = FM_EMPTY_IDX
        THEN [map |-> [map EXCEPT !.buckets[hole_idx] = FM_EMPTY_IDX],
              status |-> "ok"]
        ELSE IF n > map.bucket_mask
        THEN [map |-> map, status |-> "hang"]
        ELSE LET next_hash == fm_vec_at(map.hashes, next_val)
                 ideal_idx == HashAnd(next_hash, map.bucket_mask)
                 dist_to_hole == BitAnd(hole_idx + map.bucket_count - ideal_idx,
                                        map.bucket_mask)
                 dist_to_next == BitAnd(next_idx + map.bucket_count - ideal_idx,
                                        map.bucket_mask)
                 nxt == BitAnd(next_idx + 1, map.bucket_mask)
             IN  IF dist_to_hole < dist_to_next
                 THEN backshift_loop_nohole([map EXCEPT !.buckets[hole_idx] = next_val],
                                            hole_idx, nxt, n + 1)
                 ELSE backshift_loop_nohole(map, hole_idx, nxt, n + 1)

\* Faulty variant of backshift_loop: next_idx is advanced only when an entry
\* was moved, so the scan stays for ever on the first entry it cannot move.
RECURSIVE backshift_loop_stuck(_, _, _, _)
backshift_loop_stuck(map, hole_idx, next_idx, n) ==
    LET next_val == map.buckets[next_idx]
    IN  IF next_val = FM_EMPTY_IDX
        THEN [map |-> [map EXCEPT !.buckets[hole_idx] = FM_EMPTY_IDX],
              status |-> "ok"]
        ELSE LET next_hash == fm_vec_at(map.hashes, next_val)
                 ideal_idx == HashAnd(next_hash, map.bucket_mask)
                 dist_to_hole == BitAnd(hole_idx + map.bucket_count - ideal_idx,
                                        map.bucket_mask)
                 dist_to_next == BitAnd(next_idx + map.bucket_count - ideal_idx,
                                        map.bucket_mask)
             IN  IF dist_to_hole < dist_to_next
                 THEN backshift_loop_stuck([map EXCEPT !.buckets[hole_idx] = next_val],
                                           next_idx,
                                           BitAnd(next_idx + 1, map.bucket_mask), n + 1)
                 ELSE [map |-> map, status |-> "hang"]

\* Faulty variant of backshift_loop: an entry is moved whenever it is away
\* from its ideal slot, wherever the hole lies (dist_to_hole is not looked at).
RECURSIVE backshift_loop_anyhole(_, _, _, _)
backshift_loop_anyhole(map, hole_idx, next_idx, n) ==
    LET next_val == map.buckets[next_idx]
    IN  IF next_val = FM_EMPTY_IDX
        THEN [map |-> [map EXCEPT !.buckets[hole_idx] = FM_EMPTY_IDX],
              status |-> "ok"]
        ELSE IF n > map.bucket_mask
        THEN [map |-> map, status |-> "hang"]
        ELSE LET next_hash == fm_vec_at(map.hashes, next_val)
                 ideal_idx == HashAnd(next_hash, map.bucket_mask)
                 dist_to_next == BitAnd(next_idx + map.bucket_count - ideal_idx,
                                        map.bucket_mask)
                 nxt == BitAnd(next_idx + 1, map.bucket_mask)
             IN  IF 0 < dist_to_next
                 THEN backshift_loop_anyhole([map EXCEPT !.buckets[hole_idx] = next_val],
                                             next_idx, nxt, n + 1)
                 ELSE backshift_loop_anyhole(map, hole_idx, nxt, n + 1)

\* Faulty variant of backshift_loop: the vacated slot is marked EMPTY at
\* once and no follower is pulled back.
backshift_loop_noshift(map, hole_idx, next_idx, n) ==
    [map |-> [map EXCEPT !.buckets[hole_idx] = FM_EMPTY_IDX], status |-> "ok"]

\* Part B: the backward-shift loop. n counts the iterations; the loop returns
\* only at an EMPTY slot and creates none before that.
RECURSIVE backshift_loop(_, _, _, _)
backshift_loop(map, hole_idx, next_idx, n) ==
    LET next_val == map.buckets[next_idx]
    IN  IF next_val = FM_EMPTY_IDX
        THEN [map |-> [map EXCEPT !.buckets[hole_idx] = FM_EMPTY_IDX],
              status |-> "ok"]
        ELSE IF n > map.bucket_mask
        THEN [map |-> map, status |-> "hang"]
        ELSE LET next_hash == fm_vec_at(map.hashes, next_val)
                 ideal_idx == HashAnd(next_hash, map.bucket_mask)
                 dist_to_hole == BitAnd(hole_idx + map.bucket_count - ideal_idx,
                                        map.bucket_mask)
                 dist_to_next == BitAnd(next_idx + map.bucket_count - ideal_idx,
                                        map.bucket_mask)
                 nxt == BitAnd(next_idx + 1, map.bucket_mask)
             IN  IF dist_to_hole < dist_to_next
                 THEN backshift_loop([map EXCEPT !.buckets[hole_idx] = next_val],
                                     next_idx, nxt, n + 1)
                 ELSE backshift_loop(map, hole_idx, nxt, n + 1)

\* The delete logic once the key is found at bucket_idx, dense index vec_idx.
EraseFound(map, bucket_idx, vec_idx) ==
    LET a == SwapAndPop(map, vec_idx)
        b == backshift_loop(a.map, bucket_idx,
                            BitAnd(bucket_idx + 1, a.map.bucket_mask), 0)
    IN  IF a.status # "ok" THEN [map |-> a.map, ret |-> FALSE, status |-> a.status]
        ELSE [map |-> b.map, ret |-> b.status = "ok", status |-> b.status]

\* The search loop of fm_erase.
RECURSIVE erase_loop(_, _, _, _)
erase_loop(map, key, bucket_idx, dist) ==
    LET vec_idx == map.buckets[bucket_idx]
    IN  IF vec_idx = FM_EMPTY_IDX
        THEN [map |-> map, ret |-> FALSE, status |-> "ok"]
        ELSE LET existing_hash == fm_vec_at(map.hashes, vec_idx)
                 ideal_idx     == HashAnd(existing_hash, map.bucket_mask)
                 existing_dist == ProbeDist(bucket_idx, ideal_idx, map.bucket_mask)
             IN  IF existing_dist < dist
                 THEN [map |-> map, ret |-> FALSE, status |-> "ok"]
                 ELSE IF KeyEq(fm_vec_at(map.keys, vec_idx), key, map.key_size)
                 THEN EraseFound(map, bucket_idx, vec_idx)
                 ELSE erase_loop(map, key,
                                 BitAnd(bucket_idx + 1, map.bucket_mask), dist + 1)

fm_erase(map, key) ==
    LET hash == HashTable[map.key_size][key]
    IN  erase_loop(map, key, HashAnd(hash, map.bucket_mask), 0)


(***************************************************************************)
(* The state machine: one owner calling put, get and erase in sequence.    *)
(*   map    - the _FastMap                                                 *)
(*   status - "ok", or "abort" once abort() or a fault ended the process,  *)
(*            or "hang" once a loop runs without end                       *)
(*   op     - the last call: its name, its key, the value written (val),   *)
(*            whether fm_put ran fm_resize (resized), fm_erase's result    *)
(*            (found) and fm_get's pointer (ref: the dense index of the    *)
(*            value it addresses, or NULL) and the length the map had      *)
(*            when the call was made (len)                                 *)
(*   dict   - the abstract key -> value dictionary run side by side        *)
(***************************************************************************)
VARIABLES map, status, op, dict

vars == << map, status, op, dict >>

\* The keys the owner of this map calls it with.
Keys == IF map.key_size = PtrSize THEN PtrKeys ELSE IntKeys

RECURSIVE Fill(_)
Fill(n) ==
    IF n = 0 THEN fm_init(IntSize, IntSize)
    ELSE fm_put(Fill(n - 1), n - 1, n - 1, "none").map

Call(name_, key_, val_, resized_, found_, ref_, len_) ==
    [name |-> name_, key |-> key_, val |-> val_, resized |-> resized_,
     found |-> found_, ref |-> ref_, len |-> len_]

DictPut(d, k, v) == [x \in DOMAIN d \cup {k} |-> IF x = k THEN v ELSE d[x]]
DictErase(d, k) == [x \in DOMAIN d \ {k} |-> d[x]]

Init ==
    /\ \/ \E n \in FillSizes :
            /\ map = Fill(n)
            /\ dict = [k \in 0..(n - 1) |-> k]
       \/ /\ map = fm_init(PtrSize, IntSize)
          /\ dict = << >>
    /\ status = "ok"
    /\ op = Call("init", 0, 0, FALSE, FALSE, NULL, 0)

\* fm_put with every allocation succeeding.
Put(k, v) ==
    /\ status = "ok"
    /\ LET r == fm_put(map, k, v, "none")
       IN  /\ map' = r.map
           /\ status' = r.status
           /\ dict' = IF r.status = "ok" THEN DictPut(dict, k, v) ELSE dict
    /\ op' = Call("put", k, v, NeedResize(map), FALSE, NULL, map.keys.length)

\* fm_put with the allocation oom failing; only where the call makes it.
PutOom(k, v, oom) ==
    /\ status = "ok"
    /\ \/ oom = "buckets" /\ NeedResize(map)
       \/ oom = "keys" /\ map.keys.length >= map.keys.capacity
       \/ oom = "values" /\ map.values.length >= map.values.capacity
       \/ oom = "hashes" /\ map.hashes.length >= map.hashes.capacity
    /\ LET r == fm_put(map, k, v, oom)
       IN  /\ r.status = "abort"
           /\ map' = r.map
           /\ status' = r.status
    /\ op' = Call("put", k, v, NeedResize(map) /\ oom # "buckets", FALSE, NULL,
                  map.keys.length)
    /\ UNCHANGED dict

Get(k) ==
    /\ status = "ok"
    /\ op' = Call("get", k, 0, FALSE, FALSE, fm_get(map, k), map.keys.length)
    /\ UNCHANGED << map, status, dict >>

\* The caller writes through the pointer the last fm_get returned
\* (retrieved->z = 99.0f), before any other call on the map.
WriteRef(v) ==
    /\ status = "ok"
    /\ op.name \in {"get", "write"}
    /\ op.ref # NULL
    /\ map' = [map EXCEPT !.values = VecStore(map.values, op.ref, v)]
    /\ dict' = DictPut(dict, op.key, v)
    /\ op' = [op EXCEPT !.name = "write", !.val = v]
    /\ UNCHANGED status

Erase(k) ==
    /\ status = "ok"
    /\ LET r == fm_erase(map, k)
       IN  /\ map' = r.map
           /\ status' = r.status
           /\ op' = Call("erase", k, 0, FALSE, r.ret, NULL, map.keys.length)
           /\ dict' = IF r.status = "ok" THEN DictErase(dict, k) ELSE dict

Next ==
    \/ \E k \in Keys, v \in Values : Put(k, v)
    \/ \E k \in Keys, v \in Values, oom \in {"buckets", "keys", "values", "hashes"} :
           PutOom(k, v, oom)
    \/ \E k \in Keys : Get(k)
    \/ \E v \in Values : WriteRef(v)
    \/ \E k \in Keys : Erase(k)

Spec == Init /\ [][Next]_vars


(***************************************************************************)
(* Reading the state                                                       *)
(***************************************************************************)

\* The dense positions that are live.
Live(m) == 0..(m.keys.length - 1)

\* k is stored at some live dense position (a scan of the keys vector).
InDense(m, k) == \E i \in Live(m) : fm_vec_at(m.keys, i) = k

\* What the caller reads through fm_get's pointer; NotFound on NULL.
NotFound == -1
Lookup(m, k) ==
    LET r == fm_get(m, k)
    IN  IF r = NULL THEN NotFound ELSE fm_vec_at(m.values, r)

\* Every key the map can have been called with.
AllKeys == KeysOfSize(map.key_size)

(***************************************************************************)
(* C1: run side by side with an abstract dictionary from create on, the    *)
(* map answers get(k) with the dictionary's value for k when k is in it    *)
(* (the last value put and not erased since) and with not-found otherwise. *)
(***************************************************************************)
C1_AgreesWithDict ==
    status = "ok" =>
        \A k \in AllKeys :
            IF k \in DOMAIN dict
            THEN fm_get(map, k) # NULL /\ Lookup(map, k) = dict[k]
            ELSE fm_get(map, k) = NULL

\* An erase that removed a key from a map that has gone through a resize and
\* still holds at least 12 entries.
C1_Witness ==
    /\ status = "ok"
    /\ op.name = "erase" /\ op.found
    /\ map.bucket_count > InitBuckets
    /\ map.keys.length >= 12

(***************************************************************************)
(* C2: the non-empty bucket slots reference exactly the live dense         *)
(* positions: no slot references a position >= length, and every live      *)
(* position is referenced by exactly one slot.                             *)
(***************************************************************************)
C2_Bijection ==
    status = "ok" =>
        /\ \A b \in DOMAIN map.buckets :
               map.buckets[b] # FM_EMPTY_IDX => map.buckets[b] \in Live(map)
        /\ \A i \in Live(map) :
               Cardinality({b \in DOMAIN map.buckets : map.buckets[b] = i}) = 1

\* After an erase that removed an entry of a resized map.
C2_Witness ==
    /\ status = "ok"
    /\ op.name = "erase" /\ op.found
    /\ map.bucket_count > InitBuckets
    /\ map.keys.length >= 13

(***************************************************************************)
(* C3: erase(k) on a key stored in the map returns true, takes length down *)
(* by exactly one, makes get(k) miss, and leaves every other stored key    *)
(* retrievable with its value.                                             *)
(***************************************************************************)
C3_ErasePresent ==
    [][(op'.name = "erase" /\ InDense(map, op'.key)) =>
          /\ status' = "ok"
          /\ op'.found
          /\ map'.keys.length = map.keys.length - 1
          /\ fm_get(map', op'.key) = NULL
          /\ \A i \in Live(map) :
                 fm_vec_at(map.keys, i) # op'.key =>
                     Lookup(map', fm_vec_at(map.keys, i)) = fm_vec_at(map.values, i)
      ]_vars

\* An erase that found its key and left at least two entries behind.
C3_Witness ==
    /\ status = "ok"
    /\ op.name = "erase" /\ op.found
    /\ map.keys.length >= 2

(***************************************************************************)
(* Reading a step: the call just made is op', the map before it is map.    *)
(***************************************************************************)

\* A put that returned (no allocation failed) on a key stored in the map.
PutOnPresent == op'.name = "put" /\ status' # "abort" /\ InDense(map, op'.key)

\* A put that returned (no allocation failed) on a key not stored in the map.
PutOnAbsent == op'.name = "put" /\ status' # "abort" /\ ~InDense(map, op'.key)

\* The dense store after the step is the one before it, but for the value
\* stored with key k, which is v.
OnlyValueOf(k, v) ==
    /\ map'.keys = map.keys
    /\ map'.hashes = map.hashes
    /\ map'.values.length = map.values.length
    /\ map'.values.capacity = map.values.capacity
    /\ \A i \in Live(map) :
           fm_vec_at(map'.values, i) =
               IF fm_vec_at(map.keys, i) = k THEN v ELSE fm_vec_at(map.values, i)

(***************************************************************************)
(* C4, as claimed: put(k, v) on a key already present changes only the     *)
(* value stored for k: length, every dense position, bucket_count and      *)
(* every bucket slot are the same after the call as before.                *)
(***************************************************************************)
C4_UpdateTouchesNoIndex ==
    [][PutOnPresent =>
          /\ status' = "ok"
          /\ OnlyValueOf(op'.key, op'.val)
          /\ map'.bucket_count = map.bucket_count
          /\ map'.buckets = map.buckets
      ]_vars

(***************************************************************************)
(* C4, amended: put(k, v) on a key already present changes only the value  *)
(* stored for k in the dense store (length, capacities and every dense     *)
(* position unchanged); the bucket index is unchanged too unless the load  *)
(* check at entry holds (length >= bucket_count * 0.80), in which case     *)
(* bucket_count doubles and the bucket array is rebuilt, every key still   *)
(* found at its dense position.                                            *)
(***************************************************************************)
C4_UpdateInPlace ==
    [][PutOnPresent =>
          /\ status' = "ok"
          /\ OnlyValueOf(op'.key, op'.val)
          /\ IF map.keys.length * LoadDen >= map.bucket_count * LoadNum
             THEN /\ map'.bucket_count = 2 * map.bucket_count
                  /\ \A i \in Live(map) : fm_get(map', fm_vec_at(map.keys, i)) = i
             ELSE /\ map'.bucket_count = map.bucket_count
                  /\ map'.buckets = map.buckets
      ]_vars

\* An update that ran the resize first: the key was stored, the length is
\* what it was, and bucket_count has doubled.
C4_Witness ==
    /\ status = "ok"
    /\ op.name = "put" /\ op.resized
    /\ map.keys.length = op.len
    /\ map.bucket_count = 2 * InitBuckets

(***************************************************************************)
(* C5, as claimed: after every put, 5 * length <= 4 * bucket_count.        *)
(***************************************************************************)
C5_LoadAfterPut ==
    (status = "ok" /\ op.name = "put") =>
        5 * map.keys.length <= 4 * map.bucket_count

(***************************************************************************)
(* C5, amended: after every put (and in every state put and erase reach),  *)
(* the length before the last insert is below bucket_count * 0.80, i.e.    *)
(* 5 * (length - 1) < 4 * bucket_count: the load check runs before the     *)
(* insert, so length itself may exceed the load limit by one entry.        *)
(***************************************************************************)
C5_LoadBeforeInsert ==
    status = "ok" => 5 * (map.keys.length - 1) < 4 * map.bucket_count

\* A put that inserted the entry taking the length over bucket_count * 0.80.
C5_Witness ==
    /\ status = "ok"
    /\ op.name = "put"
    /\ map.keys.length = op.len + 1
    /\ 5 * map.keys.length > 4 * map.bucket_count

(***************************************************************************)
(* C6: put(k, v) on a key not stored in the map, followed at once by       *)
(* get(k), returns v, also when the put ran fm_resize or doubled the       *)
(* capacity of the dense vectors.                                          *)
(***************************************************************************)
C6_PutThenGet ==
    [][PutOnAbsent =>
          /\ status' = "ok"
          /\ fm_get(map', op'.key) # NULL
          /\ Lookup(map', op'.key) = op'.val
      ]_vars

\* A put that ran fm_resize and then inserted its key as a new entry.
C6_Witness ==
    /\ status = "ok"
    /\ op.name = "put" /\ op.resized
    /\ map.keys.length = op.len + 1
    /\ fm_vec_at(map.keys, op.len) = op.key

(***************************************************************************)
(* C7: erase(k) on a key not stored in the map returns false, and get(k),  *)
(* hit or miss, returns; after either call the dense store (keys, values,  *)
(* hashes, length), the bucket array and bucket_count are what they were.  *)
(***************************************************************************)
C7_MissMutatesNothing ==
    [][/\ (op'.name = "erase" /\ ~InDense(map, op'.key)) =>
              status' = "ok" /\ ~op'.found /\ map' = map
       /\ op'.name = "get" => status' = "ok" /\ map' = map
      ]_vars

\* An erase that missed on a map holding entries, some slot of the key's
\* probe path occupied.
C7_Witness ==
    /\ status = "ok"
    /\ op.name = "erase" /\ ~op.found
    /\ map.keys.length >= 1
    /\ map.buckets[HashAnd(HashTable[map.key_size][op.key], map.bucket_mask)]
           # FM_EMPTY_IDX

(***************************************************************************)
(* C8, as claimed: in a FM_INIT(char*, int) map, after put under a pointer *)
(* to a text, get under any pointer to an equal text (another address)     *)
(* finds the entry and returns the value put.                              *)
(***************************************************************************)
C8_TextKeysByContent ==
    [][(op'.name = "put" /\ status' = "ok" /\ map.key_size = PtrSize) =>
          \A q \in PtrKeys :
              Memory[q] = Memory[op'.key] => Lookup(map', q) = op'.val
      ]_vars

(***************************************************************************)
(* C9, as claimed: when an allocation made during a put fails, the map is  *)
(* left as it was before the call: the three vectors of the same length,   *)
(* the bucket array and bucket_count unchanged.                            *)
(***************************************************************************)
C9_AllocFailureLeavesMap ==
    [][status' = "abort" =>
          /\ map' = map
          /\ map'.keys.length = map'.values.length
          /\ map'.values.length = map'.hashes.length
      ]_vars

(***************************************************************************)
(* C10: the pointer fm_get returns for a stored key addresses the value    *)
(* the map stores for that key: a write through it, no put or erase in     *)
(* between, is what the next get(k) reads, through the same pointer, and   *)
(* it changes no other entry's value, no key, no hash and no bucket.       *)
(***************************************************************************)
C10_GetReturnsReference ==
    [][op'.name = "write" =>
          /\ op.ref \in Live(map)
          /\ fm_vec_at(map.keys, op.ref) = op'.key
          /\ fm_get(map', op'.key) = op.ref
          /\ Lookup(map', op'.key) = op'.val
          /\ OnlyValueOf(op'.key, op'.val)
          /\ map'.buckets = map.buckets
          /\ map'.bucket_count = map.bucket_count
      ]_vars

\* A write through the pointer of a get that replaced a different value, in
\* a map holding other entries.
C10_Witness ==
    /\ status = "ok"
    /\ op.name = "write"
    /\ map.keys.length >= 2
    /\ op.ref # NULL
    /\ fm_vec_at(map.values, op.ref) = op.val
    /\ \E i \in Live(map) : i # op.ref /\ fm_vec_at(map.values, i) # op.val

(***************************************************************************)
(* Reading the bucket array                                                *)
(***************************************************************************)

\* The ideal slot (hash & mask) of the entry whose index slot b holds.
Ideal(m, b) == HashAnd(fm_vec_at(m.hashes, m.buckets[b]), m.bucket_mask)

\* The probe distance of the entry whose index slot b holds.
Dist(m, b) == ProbeDist(b, Ideal(m, b), m.bucket_mask)

\* The occupied slots.
Occupied(m) == {b \in DOMAIN m.buckets : m.buckets[b] # FM_EMPTY_IDX}

(***************************************************************************)
(* C11: for every entry in slot b with ideal slot h and probe distance D,  *)
(* each slot h + d (mod bucket_count), 0 <= d < D, is occupied by an entry *)
(* whose own probe distance is >= d; it holds after put, resize and erase  *)
(* (whose backward shift leaves no tombstone).                             *)
(***************************************************************************)
C11_RobinHood ==
    status = "ok" =>
        \A b \in Occupied(map) :
            \A d \in 0..(Dist(map, b) - 1) :
                LET s == (Ideal(map, b) + d) % map.bucket_count
                IN  s \in Occupied(map) /\ Dist(map, s) >= d

\* A put into a map an erase has been through (the loop's key 0 is gone)
\* that leaves an entry at probe distance 2 or more.
C11_Witness ==
    /\ status = "ok"
    /\ op.name = "put"
    /\ ~InDense(map, 0)
    /\ \E b \in Occupied(map) : Dist(map, b) >= 2

(***************************************************************************)
(* C12: for every key k the three probe loops reach the same verdict:      *)
(* fm_put's loop finds k (update in place) iff fm_get returns a pointer    *)
(* iff fm_erase returns true, and when found all three are at the same     *)
(* dense position: the one put overwrites, get addresses and erase         *)
(* swap-removes.                                                           *)
(***************************************************************************)

\* The slot the probe for k starts at.
Home(m, k) == HashAnd(HashTable[m.key_size][k], m.bucket_mask)

\* The keys vector after the swap-remove of dense position p.
KeysWithout(m, p) ==
    [i \in 1..(m.keys.length - 1) |->
        IF i = p + 1 THEN m.keys.data[m.keys.length] ELSE m.keys.data[i]]

C12_ProbesAgree ==
    status = "ok" =>
        \A k \in AllKeys :
            LET g == fm_get(map, k)
                p == put_probe(map, k, Home(map, k), 0)
                u == fm_put(map, k, 1, "none")
                e == fm_erase(map, k)
            IN  /\ (p # FM_EMPTY_IDX) = (g # NULL)
                /\ (u.map.keys.length = map.keys.length) = (g # NULL)
                /\ e.ret = (g # NULL)
                /\ g # NULL =>
                       /\ p = g
                       /\ fm_vec_at(map.keys, g) = k
                       /\ fm_vec_at(u.map.values, g) = 1
                       /\ e.map.keys.data = KeysWithout(map, g)

\* A state with a stored key two or more slots from its ideal slot, and a
\* key that is not stored.
C12_Witness ==
    /\ status = "ok"
    /\ \E k \in AllKeys :
           /\ fm_get(map, k) # NULL
           /\ \E b \in Occupied(map) :
                  map.buckets[b] = fm_get(map, k) /\ Dist(map, b) >= 2
    /\ \E k \in AllKeys : ~InDense(map, k)

(***************************************************************************)
(* C13: when erase removes the entry at dense position p of a store of     *)
(* length n: if p < n-1 the key, value and hash formerly at n-1 are at p   *)
(* afterwards and the one bucket slot that referenced n-1 references p     *)
(* once the swap-remove is done (the backward shift that follows leaves    *)
(* that reference in its slot or pulls it one slot back); if p = n-1       *)
(* nothing is moved; every entry at a position other than p and n-1 keeps  *)
(* its position, key, value and hash, and the positions [0, n-1) are the   *)
(* live ones.                                                              *)
(***************************************************************************)

\* The entry at dense position i of m.
Entry(m, i) ==
    << fm_vec_at(m.keys, i), fm_vec_at(m.values, i), fm_vec_at(m.hashes, i) >>

\* The slots of m that hold index i.
SlotsOf(m, i) == {b \in DOMAIN m.buckets : m.buckets[b] = i}

BucketShape(m) ==
    /\ m.bucket_count >= InitBuckets
    /\ BitAnd(m.bucket_count, m.bucket_count - 1) = 0
    /\ m.bucket_mask = m.bucket_count - 1
    /\ DOMAIN m.buckets = 0..(m.bucket_count - 1)

C14_BucketCount ==
    /\ BucketShape(map)
    /\ [][/\ BucketShape(map')
          /\ (op'.name = "put" /\ status' # "abort") =>
                 map'.bucket_count =
                     IF 5 * map.keys.length >= 4 * map.bucket_count
                     THEN 2 * map.bucket_count
                     ELSE map.bucket_count
          /\ op'.name # "put" => map'.bucket_count = map.bucket_count
         ]_vars

\* An erase that took a resized map back below the length at which the
\* original bucket array was left: the table has not shrunk.
C14_Witness ==
    /\ status = "ok"
    /\ op.name = "erase" /\ op.found
    /\ map.bucket_count = 2 * InitBuckets
    /\ 5 * map.keys.length < 4 * InitBuckets

(***************************************************************************)
(* C15: the resize a put runs leaves the dense store untouched (length,    *)
(* and every position's key, value and cached hash); the new bucket array  *)
(* depends on the cached hashes alone (not on the key or value bytes) and  *)
(* holds the positions 0..length-1 placed in dense order, so that of two   *)
(* entries with one ideal slot the lower position sits nearer to it; and   *)
(* every key retrievable before is retrievable after, with its value.      *)
(***************************************************************************)

\* m with the bytes of every key and value zeroed, the hashes kept.
Blanked(m) ==
    [m EXCEPT !.keys.data   = [i \in 1..m.keys.length |-> 0],
              !.values.data = [i \in 1..m.values.length |-> 0]]

C15_ResizeFrame ==
    [][(op'.name = "put" /\ op'.resized) =>
          LET r == fm_resize(map, 2 * map.bucket_count, TRUE).map
          IN  /\ r.keys = map.keys /\ r.values = map.values /\ r.hashes = map.hashes
              /\ r.bucket_count = 2 * map.bucket_count
              /\ r.buckets = fm_resize(Blanked(map), 2 * map.bucket_count, TRUE).map.buckets
              /\ \A i \in Live(map) : Cardinality(SlotsOf(r, i)) = 1
              /\ \A b \in Occupied(r) : r.buckets[b] \in Live(map)
              /\ \A b1, b2 \in Occupied(r) :
                     (Ideal(r, b1) = Ideal(r, b2) /\ Dist(r, b1) < Dist(r, b2)) =>
                         r.buckets[b1] < r.buckets[b2]
              /\ \A i \in Live(map) :
                     /\ fm_get(map, fm_vec_at(map.keys, i)) = i
                     /\ fm_get(r, fm_vec_at(map.keys, i)) = i
              /\ map'.bucket_count = r.bucket_count
              /\ status' = "ok" =>
                     \A i \in Live(map) :
                         /\ Entry(map', i)[1] = Entry(map, i)[1]
                         /\ Entry(map', i)[3] = Entry(map, i)[3]
                         /\ fm_get(map', fm_vec_at(map.keys, i)) = i
                         /\ fm_vec_at(map.keys, i) # op'.key =>
                                Entry(map', i) = Entry(map, i)
      ]_vars

\* A put that ran the resize and left an entry of the new array displaced
\* from its ideal slot.
C15_Witness ==
    /\ status = "ok"
    /\ op.name = "put" /\ op.resized
    /\ \E b \in Occupied(map) : Dist(map, b) >= 1

(***************************************************************************)
(* C16: every put, get and erase terminates: no call ends in a loop that   *)
(* runs for ever (fm_place_index in put and resize, the backward-shift     *)
(* scan and fm_update_bucket_for_moved_item in erase), and in every state  *)
(* a call can start from length < bucket_count, some slot is EMPTY, and    *)
(* the probe for any key stops within bucket_count slots: at an EMPTY      *)
(* slot, at the key, or at an incumbent nearer to its ideal slot than the  *)
(* probe has gone.                                                         *)
(***************************************************************************)

\* The probe for k, started at its ideal slot, stops at its d-th slot.
ProbeStops(m, k, d) ==
    LET b == BitAnd(Home(m, k) + d, m.bucket_mask)
    IN  \/ m.buckets[b] = FM_EMPTY_IDX
        \/ fm_vec_at(m.keys, m.buckets[b]) = k
        \/ Dist(m, b) < d

C16_Terminates ==
    /\ status # "hang"
    /\ status = "ok" =>
           /\ map.keys.length < map.bucket_count
           /\ Occupied(map) # DOMAIN map.buckets
           /\ \A k \in AllKeys :
                  \E d \in 0..(map.bucket_count - 1) : ProbeStops(map, k, d)

\* The fullest the table gets: a put has left length above
\* bucket_count * 0.80.
C16_Witness ==
    /\ status = "ok"
    /\ op.name = "put"
    /\ 5 * map.keys.length > 4 * map.bucket_count
    /\ \E b \in Occupied(map) : Dist(map, b) >= 2

(***************************************************************************)
(* Reading an erase step: the scan of the backward shift starts from the   *)
(* bucket array the swap-remove leaves, at the slot of the erased key.     *)
(***************************************************************************)

\* An erase of a stored key.
EraseOnPresent == op'.name = "erase" /\ InDense(map, op'.key)

\* The map when the swap-and-pop part of that erase is done.
AfterSwap == SwapAndPop(map, fm_get(map, op'.key)).map

\* The slot the erase vacates.
Vacated == CHOOSE b \in DOMAIN map.buckets : map.buckets[b] = fm_get(map, op'.key)

\* The scan as C17 claims it, from the slot next on: an entry at a probe
\* distance above zero goes into the hole, which advances to its slot; an
\* entry at distance zero stays; the first EMPTY slot ends the scan, the
\* hole marked EMPTY.
RECURSIVE ShiftEveryPositive(_, _, _)
ShiftEveryPositive(m, hole, next) ==
    IF m.buckets[next] = FM_EMPTY_IDX
    THEN [m.buckets EXCEPT ![hole] = FM_EMPTY_IDX]
    ELSE IF Dist(m, next) > 0
    THEN ShiftEveryPositive([m EXCEPT !.buckets[hole] = m.buckets[next]], next,
                            BitAnd(next + 1, m.bucket_mask))
    ELSE ShiftEveryPositive(m, hole, BitAnd(next + 1, m.bucket_mask))

\* The scan as amended: as above until the first entry at distance zero;
\* from there on the scan goes on to the first EMPTY slot with the hole
\* left behind (blocked) and moves nothing more.
RECURSIVE ShiftUntilHome(_, _, _, _)
ShiftUntilHome(m, hole, next, blocked) ==
    IF m.buckets[next] = FM_EMPTY_IDX
    THEN [m.buckets EXCEPT ![hole] = FM_EMPTY_IDX]
    ELSE IF ~blocked /\ Dist(m, next) > 0
    THEN ShiftUntilHome([m EXCEPT !.buckets[hole] = m.buckets[next]], next,
                        BitAnd(next + 1, m.bucket_mask), FALSE)
    ELSE ShiftUntilHome(m, hole, BitAnd(next + 1, m.bucket_mask), TRUE)

(***************************************************************************)
(* C17, as claimed: during the backward shift every entry met at a         *)
(* strictly positive probe distance is moved into the hole and the hole    *)
(* advances to its slot; an entry at distance zero is not moved; the hole  *)
(* is marked EMPTY at the first EMPTY slot.                                *)
(***************************************************************************)
C17_ShiftAsClaimed ==
    [][EraseOnPresent =>
          map'.buckets =
              ShiftEveryPositive(AfterSwap, Vacated,
                                 BitAnd(Vacated + 1, map.bucket_mask))
      ]_vars

(***************************************************************************)
(* C17, amended: scanning forward from the vacated slot until the first    *)
(* EMPTY slot, each entry met at a strictly positive probe distance before *)
(* any entry at distance zero is moved into the hole, and the hole         *)
(* advances to the slot just vacated; an entry at distance zero is not     *)
(* moved, and no entry met after it is moved either, whatever its          *)
(* distance (the scan goes on, the hole left behind); the hole is marked   *)
(* EMPTY when the first EMPTY slot is met.                                 *)
(***************************************************************************)
C17_ShiftUntilHome ==
    [][EraseOnPresent =>
          map'.buckets =
              ShiftUntilHome(AfterSwap, Vacated,
                             BitAnd(Vacated + 1, map.bucket_mask), FALSE)
      ]_vars

\* An erase that left the slot after an entry of the erased key's ideal
\* slot EMPTY, the run behind it starting with an entry at its own ideal
\* slot and holding, further on, an entry at a positive distance that the
\* scan met and left where it was.
C17_Witness ==
    /\ status = "ok"
    /\ op.name = "erase" /\ op.found
    /\ \E b \in Occupied(map) :
           LET b1 == BitAnd(b + 1, map.bucket_mask)
               b2 == BitAnd(b + 2, map.bucket_mask)
           IN  /\ Dist(map, b) >= 1
               /\ map.buckets[b1] = FM_EMPTY_IDX
               /\ b2 \in Occupied(map) /\ Dist(map, b2) = 0
               /\ \E j \in 3..(map.bucket_count - 1) :
                      /\ \A i \in 2..j :
                             BitAnd(b + i, map.bucket_mask) \in Occupied(map)
                      /\ Dist(map, BitAnd(b + j, map.bucket_mask)) >= 1
               /\ HashAnd(HashTable[map.key_size][op.key], map.bucket_mask) =
                      Ideal(map, b)

(***************************************************************************)
(* Reading a put of a key not stored: what it does to the dense store and, *)
(* relative to the bucket array of a map base, to the bucket array.        *)
(***************************************************************************)

\* One entry more, (k, v, hash(k)) at the position that was the length, and
\* every other position with the entry it had.
AppendedOnly ==
    LET n == map.keys.length
    IN  /\ map'.keys.length = n + 1
        /\ map'.values.length = n + 1
        /\ map'.hashes.length = n + 1
        /\ Entry(map', n) = << op'.key, op'.val, HashTable[map.key_size][op'.key] >>
        /\ \A i \in Live(map) : Entry(map', i) = Entry(map, i)

\* The bucket array of map' is that of base with the new position placed in
\* one slot that was EMPTY or held a reference now found further on, and
\* every former reference in its slot or displaced forward from it: its
\* probe distance has grown, and the slot it left holds a reference further
\* from its ideal slot than it was there. No slot has become EMPTY.
PlacedAndDisplaced(base) ==
    LET n == map.keys.length
    IN  /\ DOMAIN map'.buckets = DOMAIN base.buckets
        /\ map'.bucket_mask = base.bucket_mask
        /\ Cardinality(SlotsOf(map', n)) = 1
        /\ Occupied(base) \subseteq Occupied(map')
        /\ Cardinality(Occupied(map')) = Cardinality(Occupied(base)) + 1
        /\ \A i \in Live(map) :
               /\ Cardinality(SlotsOf(map', i)) = 1
               /\ \A b \in SlotsOf(base, i), b2 \in SlotsOf(map', i) :
                      \/ b2 = b
                      \/ /\ Dist(map', b2) > Dist(base, b)
                         /\ Dist(map', b) > Dist(base, b)

(***************************************************************************)
(* C18, as claimed: put(k, v) on an absent key takes length up by one and  *)
(* appends (k, v, hash(k)) at the position that was the length, changes no *)
(* other entry, and changes the bucket array only by placing the new       *)
(* position and displacing existing references forward.                    *)
(***************************************************************************)
C18_PutAbsentFrame ==
    [][(PutOnAbsent /\ status' = "ok") =>
          AppendedOnly /\ PlacedAndDisplaced(map)
      ]_vars

(***************************************************************************)
(* C18, amended: as claimed for the dense store; the bucket-array changes  *)
(* are the new position placed and existing references displaced forward   *)
(* by Robin Hood swaps, made on the array as it is at entry or, when       *)
(* length >= bucket_count * 0.80 holds at entry, on the array rebuilt at   *)
(* double the size by the resize the put runs first.                       *)
(***************************************************************************)
C18_PutAbsentFrameAfterResize ==
    [][(PutOnAbsent /\ status' = "ok") =>
          /\ AppendedOnly
          /\ PlacedAndDisplaced(
                 IF 5 * map.keys.length >= 4 * map.bucket_count
                 THEN fm_resize(map, 2 * map.bucket_count, TRUE).map
                 ELSE map)
      ]_vars

\* A put of a new key that displaced a reference forward: the slot after
\* the new reference holds an older one whose probe path runs through the
\* slot the new one took, so that slot was not EMPTY when the put began.
C18_Witness ==
    /\ status = "ok"
    /\ op.name = "put"
    /\ map.keys.length = op.len + 1
    /\ \E b \in SlotsOf(map, op.len) :
           LET b1 == BitAnd(b + 1, map.bucket_mask)
           IN  /\ b1 \in Occupied(map)
               /\ Dist(map, b) >= 1
               /\ Dist(map, b1) >= 1

\* No two live dense positions of m hold keys of equal bytes.
KeysDistinct(m) ==
    \A i, j \in Live(m) :
        i # j => KeyBytes[m.key_size][fm_vec_at(m.keys, i)]
                     # KeyBytes[m.key_size][fm_vec_at(m.keys, j)]

(***************************************************************************)
(* C19: after any sequence of put and erase no two live dense positions    *)
(* hold byte-equal keys, and a put on a key already stored appends no      *)
(* second entry for it (the length and the keys stay as they were), also   *)
(* when the put first resizes and when the key is stored away from its     *)
(* ideal slot, at the end of a probe run.                                  *)
(***************************************************************************)
C19_KeysUnique ==
    /\ status = "ok" => KeysDistinct(map)
    /\ [][PutOnPresent =>
             /\ status' = "ok"
             /\ map'.keys = map.keys
             /\ KeysDistinct(map')
         ]_vars

\* A put on a stored key that resized first and then found the key one slot
\* or more after its ideal slot; nothing was appended.
C19_Witness ==
    /\ status = "ok"
    /\ op.name = "put"
    /\ op.resized
    /\ map.keys.length = op.len
    /\ \E b \in Occupied(map) :
           /\ fm_vec_at(map.keys, map.buckets[b]) = op.key
           /\ Dist(map, b) >= 1

\* The three vectors of m in lockstep: one length, one capacity that holds
\* the length, and as many elements as the length says.
Lockstep(m) ==
    /\ m.values.length = m.keys.length
    /\ m.hashes.length = m.keys.length
    /\ m.values.capacity = m.keys.capacity
    /\ m.hashes.capacity = m.keys.capacity
    /\ m.keys.length <= m.keys.capacity
    /\ Len(m.keys.data) = m.keys.length
    /\ Len(m.values.data) = m.keys.length
    /\ Len(m.hashes.data) = m.keys.length

\* The hash cached at every live position is the hash of the key bytes
\* stored at that position.
DigestsCached(m) ==
    \A i \in Live(m) :
        fm_vec_at(m.hashes, i) = HashTable[m.key_size][fm_vec_at(m.keys, i)]

(***************************************************************************)
(* C20: whenever an operation has returned, the keys, values and hashes    *)
(* vectors have the same length and the same capacity, and the hash cached *)
(* at each live dense position is the hash of the key bytes at that        *)
(* position; so after an update in place, after an append and after the    *)
(* swap-remove of an erase.                                                *)
(***************************************************************************)
C20_LockstepAndDigests ==
    status = "ok" => Lockstep(map) /\ DigestsCached(map)

\* An erase has moved the last entry into the position of the erased key,
\* in a map whose vectors have grown beyond their first capacity.
C20_Witness ==
    /\ status = "ok"
    /\ op.name = "erase"
    /\ op.found
    /\ map.keys.length = op.len - 1
    /\ map.keys.capacity > InitCap
    /\ \E i \in Live(map) :
           /\ op.key = i
           /\ fm_vec_at(map.keys, i) = op.len - 1
           /\ fm_vec_at(map.hashes, i) = HashTable[map.key_size][op.len - 1]

\* The slot of m that references the entry of the stored key k.
SlotOfKey(m, k) ==
    CHOOSE b \in Occupied(m) : fm_vec_at(m.keys, m.buckets[b]) = k

\* The keys other than skip that the n slots of m from slot b on reference,
\* in slot order.
RECURSIVE RunKeys(_, _, _, _)
RunKeys(m, b, n, skip) ==
    IF n = 0 THEN << >>
    ELSE LET rest == RunKeys(m, BitAnd(b + 1, m.bucket_mask), n - 1, skip)
         IN  IF m.buckets[b] = FM_EMPTY_IDX
                    \/ fm_vec_at(m.keys, m.buckets[b]) = skip
             THEN rest
             ELSE << fm_vec_at(m.keys, m.buckets[b]) >> \o rest

(***************************************************************************)
(* C21: an erase only pulls entries toward home. Every entry that survives *)
(* an erase is referenced afterwards from the slot it had or from the slot *)
(* immediately before it, its probe distance the same or one less; none is *)
(* moved in front of its ideal slot (a reference moves back only from a    *)
(* distance of one or more), none past another (read round from the        *)
(* vacated slot, the surviving keys come in the order they had), and no    *)
(* probe distance grows.                                                   *)
(***************************************************************************)
C21_PullsTowardHome ==
    [][EraseOnPresent =>
          /\ status' = "ok"
          /\ \A k \in AllKeys :
                 (InDense(map, k) /\ k # op'.key) =>
                     /\ InDense(map', k)
                     /\ LET s == SlotOfKey(map, k)
                            t == SlotOfKey(map', k)
                        IN  \/ t = s /\ Dist(map', t) = Dist(map, s)
                            \/ /\ t = BitAnd(s + map.bucket_mask, map.bucket_mask)
                               /\ Dist(map, s) >= 1
                               /\ Dist(map', t) = Dist(map, s) - 1
          /\ RunKeys(map', Vacated, map.bucket_count, op'.key)
                 = RunKeys(map, Vacated, map.bucket_count, op'.key)
      ]_vars

\* An erase that pulled entries back and scanned on past one it could not
\* move: the erased key's ideal slot h and the two slots after it hold
\* entries at their ideal slots, the next slot is EMPTY and the one after
\* holds an entry at its ideal slot. The erased key sat in h..h+3 (its probe
\* path has no EMPTY slot), so these four slots were full and an entry now
\* at its ideal slot was one slot further on.
C21_Witness ==
    /\ status = "ok"
    /\ op.name = "erase" /\ op.found
    /\ LET h == Home(map, op.key)
           at(i) == BitAnd(h + i, map.bucket_mask)
       IN  /\ \A i \in {0, 1, 2, 4} : at(i) \in Occupied(map) /\ Dist(map, at(i)) = 0
           /\ map.buckets[at(3)] = FM_EMPTY_IDX

=============================================================================
